---- MODULE Spec2Model ----
(***************************************************************************)
(* Camera motion simulator (camera_motion_simulator.py): the simulator     *)
(* object, its six simulate_* methods and generate_all_motions, as a state *)
(* machine over a source video and the output videos it writes; the label  *)
(* parsing of the scoring code (test_gemini_camera_motion.py); and the     *)
(* pipeline script (run_complete_pipeline.py), whose step 2 runs the       *)
(* simulator.                                                              *)
(*                                                                         *)
(* Numbers.  Python floats are modelled as exact fractions [n, d]; int()   *)
(* is truncation toward zero, // is floor division, % takes the sign of    *)
(* the (positive) divisor.  The inputs are kept to values on which the     *)
(* fractions and IEEE doubles yield the same integers (a max_zoom of 0 or  *)
(* -1 over three frames does not, and is left out).  A pixel is one        *)
(* integer (0 is black) standing for the three 8-bit channels, and pixel   *)
(* (r, c) of source frame i has its own non-zero value.                    *)
(***************************************************************************)
EXTENDS Integers, Sequences, FiniteSets, TLC

VARIABLES src, sim, pc, entry, k, call, out, handles, generated_videos, err,
          pipeline

vars == <<src, sim, pc, entry, k, call, out, handles, generated_videos, err,
          pipeline>>

----------------------------------------------------------------------------
(* Bounds of the model. *)
MaxFps == 2
MaxWidth == 3
MaxHeight == 2
MaxFrames == 3

Max(a, b) == IF a >= b THEN a ELSE b
Min(a, b) == IF a <= b THEN a ELSE b

----------------------------------------------------------------------------
(* Float arithmetic as exact fractions, denominators kept positive. *)
R(n, d) == [n |-> n, d |-> d]
RInt(i) == R(i, 1)
RNorm(x) == IF x.d < 0 THEN R(-x.n, -x.d) ELSE x
RAdd(x, y) == R(x.n * y.d + y.n * x.d, x.d * y.d)
RSub(x, y) == R(x.n * y.d - y.n * x.d, x.d * y.d)
RMul(x, y) == R(x.n * y.n, x.d * y.d)
\* x / y, for y # 0 (the callers raise ZeroDivisionError before using it)
RDiv(x, y) == RNorm(R(x.n * y.d, x.d * y.n))
RIsZero(x) == x.n = 0
RGeq(x, y) == x.n * y.d >= y.n * x.d
\* int(x): truncation toward zero
PyInt(x) == IF x.n >= 0 THEN x.n \div x.d ELSE -((-x.n) \div x.d)

----------------------------------------------------------------------------
(* Images: numpy arrays of shape (h, w). *)
Img(h, w, f) == [h |-> h, w |-> w, px |-> f]
NoImage == [h |-> -1, w |-> -1, px |-> <<>>]
Cells(h, w) == (0 .. h - 1) \X (0 .. w - 1)

\* np.zeros((h, w, 3), dtype=np.uint8)
Zeros(h, w) == Img(h, w, [p \in Cells(h, w) |-> 0])

\* a[i:j] on an axis of length n: the first index and the length of the slice
SliceLo(i, n) == IF i < 0 THEN Max(i + n, 0) ELSE Min(i, n)
SliceLen(i, j, n) == Max(SliceLo(j, n) - SliceLo(i, n), 0)

\* img[y0:y1, x0:x1]
Crop(img, y0, y1, x0, x1) ==
    LET nh == SliceLen(y0, y1, img.h)
        nw == SliceLen(x0, x1, img.w)
        ylo == SliceLo(y0, img.h)
        xlo == SliceLo(x0, img.w)
    IN  Img(nh, nw, [p \in Cells(nh, nw) |-> img.px[<<ylo + p[1], xlo + p[2]>>]])

\* whether dst[y0:y1, x0:x1] = s broadcasts (else numpy raises ValueError)
CanAssign(dst, y0, y1, x0, x1, s) ==
    LET nh == SliceLen(y0, y1, dst.h)
        nw == SliceLen(x0, x1, dst.w)
    IN  (s.h = nh \/ s.h = 1) /\ (s.w = nw \/ s.w = 1)

\* dst[y0:y1, x0:x1] = s
Assign(dst, y0, y1, x0, x1, s) ==
    LET nh == SliceLen(y0, y1, dst.h)
        nw == SliceLen(x0, x1, dst.w)
        ylo == SliceLo(y0, dst.h)
        xlo == SliceLo(x0, dst.w)
    IN  Img(dst.h, dst.w,
            [p \in Cells(dst.h, dst.w) |->
                IF /\ p[1] >= ylo /\ p[1] < ylo + nh
                   /\ p[2] >= xlo /\ p[2] < xlo + nw
                THEN s.px[<<IF s.h = 1 THEN 0 ELSE p[1] - ylo,
                            IF s.w = 1 THEN 0 ELSE p[2] - xlo>>]
                ELSE dst.px[p]])

\* cv2.resize raises cv2.error on an empty source or a non-positive size
ResizeFails(img, w, h) == img.w <= 0 \/ img.h <= 0 \/ w <= 0 \/ h <= 0

\* cv2.resize(img, (w, h)): an image of exactly w by h, each cell sampled
\* from the source cell it covers (the identity when the size is unchanged)
Resize(img, w, h) ==
    Img(h, w, [p \in Cells(h, w) |->
                 img.px[<<(p[1] * img.h) \div h, (p[2] * img.w) \div w>>]])

----------------------------------------------------------------------------
(* The source video file. *)
\* what cv2.VideoCapture yields for a file it cannot open
\* (count is CAP_PROP_FRAME_COUNT, frames the number of frames read() yields)
Unopenable ==
    [opened |-> FALSE, fps |-> 0, width |-> 0, height |-> 0, count |-> 0,
     frames |-> 0]

\* the readable sources: positive frame rate and size, an accurate frame count
Sources ==
    {Unopenable} \cup
    {s \in [opened : {TRUE}, fps : 1 .. MaxFps, width : 1 .. MaxWidth,
            height : 1 .. MaxHeight, count : 0 .. MaxFrames,
            frames : 0 .. MaxFrames] : s.frames = s.count}

\* the sources whose CAP_PROP_FRAME_COUNT is not the number of frames read()
\* yields (the count of a container is an estimate)
MiscountedSources ==
    {s \in [opened : {TRUE}, fps : 1 .. MaxFps, width : 1 .. MaxWidth,
            height : 1 .. MaxHeight, count : 0 .. MaxFrames,
            frames : 0 .. MaxFrames] : s.frames # s.count}

\* frame i (from 0) of source s: every pixel has its own non-zero value
SourceFrame(s, i) ==
    Img(s.height, s.width,
        [p \in Cells(s.height, s.width) |->
            1 + p[2] + s.width * p[1] + s.width * s.height * i])

----------------------------------------------------------------------------
(* The per-frame bodies of the simulate_* loops.  Each yields the exception *)
(* it raises ("none" when it does not), the frame it hands to out.write    *)
(* and the locals it computed.                                             *)
NoLocals ==
    [offset |-> 0, canvas_w |-> 0, canvas_h |-> 0, new_width |-> 0,
     new_height |-> 0, x_start |-> 0, y_start |-> 0, progress |-> R(0, 1),
     factor |-> R(0, 1)]

Raise(e, loc) == [err |-> e, img |-> NoImage, loc |-> loc]
Emit(img, loc) == [err |-> "none", img |-> img, loc |-> loc]

\* pixels_per_frame = speed / self.fps
PixelsPerFrame(speed, self) == RDiv(speed, RInt(self.fps))

\* (variant: the else branch counts up like the positive direction)
RawOffsetForward(self, frame_num, direction, positive, ppf) ==
    PyInt(RMul(RInt(frame_num), ppf))

\* simulate_pan / simulate_tilt: the offset before the modulo; `positive` is
\* 'right' for pan and 'up' for tilt, any other direction takes the else
RawOffset(self, frame_num, direction, positive, ppf) ==
    IF direction = positive
    THEN PyInt(RMul(RInt(frame_num), ppf))
    ELSE PyInt(RMul(RInt(self.total_frames - frame_num), ppf))

\* (variant: the modulo forgotten)
PanOffsetNoWrap(self, frame_num, direction, ppf) ==
    RawOffset(self, frame_num, direction, "right", ppf)

PanOffset(self, frame_num, direction, ppf) ==
    RawOffset(self, frame_num, direction, "right", ppf) % self.width

TiltOffset(self, frame_num, direction, ppf) ==
    RawOffset(self, frame_num, direction, "up", ppf) % self.height

\* the canvas of simulate_pan: the frame twice, side by side
PanCanvas(self, frame) ==
    LET canvas_width == self.width * 2
        canvas == Zeros(self.height, canvas_width)
        left == Assign(canvas, 0, canvas.h, 0, self.width, frame)
    IN  Assign(left, 0, canvas.h, self.width, canvas_width, frame)

\* (variant: the lower half of the canvas left black)
TiltCanvasUpperOnly(self, frame) ==
    LET canvas == Zeros(self.height * 2, self.width)
    IN  Assign(canvas, 0, self.height, 0, canvas.w, frame)

\* the canvas of simulate_tilt: the frame twice, one above the other
TiltCanvas(self, frame) ==
    LET canvas_height == self.height * 2
        canvas == Zeros(canvas_height, self.width)
        top == Assign(canvas, 0, self.height, 0, canvas.w, frame)
    IN  Assign(top, self.height, canvas_height, 0, canvas.w, frame)

\* canvas[:, offset:offset + self.width]
PanWindow(self, canvas, offset) ==
    Crop(canvas, 0, canvas.h, offset, offset + self.width)

\* canvas[offset:offset + self.height, :]
TiltWindow(self, canvas, offset) ==
    Crop(canvas, offset, offset + self.height, 0, canvas.w)

PanStep(self, frame, frame_num, direction, ppf) ==
    LET canvas == PanCanvas(self, frame)
        offset == PanOffset(self, frame_num, direction, ppf)
    IN  Emit(PanWindow(self, canvas, offset),
             [NoLocals EXCEPT !.offset = offset, !.canvas_w = canvas.w,
                              !.canvas_h = canvas.h])

TiltStep(self, frame, frame_num, direction, ppf) ==
    LET canvas == TiltCanvas(self, frame)
        offset == TiltOffset(self, frame_num, direction, ppf)
    IN  Emit(TiltWindow(self, canvas, offset),
             [NoLocals EXCEPT !.offset = offset, !.canvas_w = canvas.w,
                              !.canvas_h = canvas.h])

\* (variant: the counter taken after its increment)
ProgressOffByOne(self, frame_num) == R(frame_num + 1, self.total_frames)

\* progress = frame_num / self.total_frames (total_frames # 0)
Progress(self, frame_num) == R(frame_num, self.total_frames)

\* (variant: the two branches exchanged)
InterpolateSwapped(direction, max, progress) ==
    IF direction = "in"
    THEN RSub(max, RMul(RSub(max, RInt(1)), progress))
    ELSE RAdd(RInt(1), RMul(RSub(max, RInt(1)), progress))

\* the in/out interpolation of simulate_zoom and simulate_dolly; any
\* direction other than 'in' takes the else
Interpolate(direction, max, progress) ==
    IF direction = "in"
    THEN RAdd(RInt(1), RMul(RSub(max, RInt(1)), progress))
    ELSE RSub(max, RMul(RSub(max, RInt(1)), progress))

\* (variant: the size given as (height, width))
ZoomTargetSwapped(self) == [w |-> self.height, h |-> self.width]

\* what simulate_zoom resizes the crop to
ZoomTarget(self) == [w |-> self.width, h |-> self.height]

ZoomStep(self, frame, frame_num, zoom_type, max_zoom) ==
    IF self.total_frames = 0 THEN Raise("ZeroDivisionError", NoLocals) ELSE
    LET progress == Progress(self, frame_num)
        zoom_factor == Interpolate(zoom_type, max_zoom, progress)
        l0 == [NoLocals EXCEPT !.progress = progress, !.factor = zoom_factor]
    IN  IF RIsZero(zoom_factor) THEN Raise("ZeroDivisionError", l0) ELSE
        LET new_width == PyInt(RDiv(RInt(self.width), zoom_factor))
            new_height == PyInt(RDiv(RInt(self.height), zoom_factor))
            x_start == (self.width - new_width) \div 2
            y_start == (self.height - new_height) \div 2
            loc == [l0 EXCEPT !.new_width = new_width, !.new_height = new_height,
                              !.x_start = x_start, !.y_start = y_start]
            cropped == Crop(frame, y_start, y_start + new_height,
                            x_start, x_start + new_width)
            t == ZoomTarget(self)
        IN  IF ResizeFails(cropped, t.w, t.h) THEN Raise("cv2.error", loc)
            ELSE Emit(Resize(cropped, t.w, t.h), loc)

\* (variant: the speed argument taken as the maximum scale)
max_scale_from_speed == call.intensity

\* max_scale = 1.5
max_scale == R(3, 2)

DollyStep(self, frame, frame_num, direction) ==
    IF self.total_frames = 0 THEN Raise("ZeroDivisionError", NoLocals) ELSE
    LET progress == Progress(self, frame_num)
        scale_factor == Interpolate(direction, max_scale, progress)
        new_width == PyInt(RMul(RInt(self.width), scale_factor))
        new_height == PyInt(RMul(RInt(self.height), scale_factor))
        x_start == (new_width - self.width) \div 2
        y_start == (new_height - self.height) \div 2
        loc == [NoLocals EXCEPT !.progress = progress, !.factor = scale_factor,
                                !.new_width = new_width, !.new_height = new_height,
                                !.x_start = x_start, !.y_start = y_start]
    IN  IF ResizeFails(frame, new_width, new_height) THEN Raise("cv2.error", loc)
        ELSE
        LET scaled == Resize(frame, new_width, new_height) IN
        IF RGeq(scale_factor, RInt(1))
        THEN Emit(Crop(scaled, y_start, y_start + self.height,
                       x_start, x_start + self.width), loc)
        ELSE LET dollied == Zeros(self.height, self.width) IN
             IF CanAssign(dollied, y_start, y_start + new_height,
                          x_start, x_start + new_width, scaled)
             THEN Emit(Assign(dollied, y_start, y_start + new_height,
                              x_start, x_start + new_width, scaled), loc)
             ELSE Raise("ValueError", loc)

\* (variant: a black frame is written in place of the frame read)
StaticStepBlack(frame) == Emit(Zeros(frame.h, frame.w), NoLocals)

\* simulate_static writes the frame it read
StaticStep(frame) == Emit(frame, NoLocals)

----------------------------------------------------------------------------
(* The motion catalog of generate_all_motions, in dictionary order. *)
Entry(label, filename, kind, direction, intensity) ==
    [label |-> label, filename |-> filename, kind |-> kind,
     direction |-> direction, intensity |-> intensity]

motions ==
    << Entry("pan_right", "pan_right.mp4", "pan", "right", R(50, 1)),
       Entry("pan_left", "pan_left.mp4", "pan", "left", R(50, 1)),
       Entry("tilt_up", "tilt_up.mp4", "tilt", "up", R(30, 1)),
       Entry("tilt_down", "tilt_down.mp4", "tilt", "down", R(30, 1)),
       Entry("zoom_in", "zoom_in.mp4", "zoom", "in", R(3, 2)),
       Entry("zoom_out", "zoom_out.mp4", "zoom", "out", R(3, 2)),
       Entry("dolly_in", "dolly_in.mp4", "dolly", "in", R(2, 1)),
       Entry("dolly_out", "dolly_out.mp4", "dolly", "out", R(2, 1)),
       Entry("static", "static.mp4", "static", "none", R(0, 1)) >>

\* the output path a direct call of a simulate_* method is given
DirectPath == "direct.mp4"

Paths == {motions[i].filename : i \in DOMAIN motions} \cup {DirectPath}

(* What a caller may pass to a simulate_* method. *)
Kinds == {"pan", "tilt", "zoom", "dolly", "tracking", "static"}

ValidDirections(kind) ==
    CASE kind \in {"pan", "tracking"} -> {"left", "right"}
      [] kind = "tilt" -> {"up", "down"}
      [] kind \in {"zoom", "dolly"} -> {"in", "out"}
      [] OTHER -> {"none"}

DirectionInputs(kind) ==
    IF kind = "static" THEN {"none"} ELSE ValidDirections(kind) \cup {"diagonal"}

\* speeds (pixels per second) for pan, tilt and tracking, max_zoom for zoom,
\* the speed simulate_dolly accepts; on these inputs the fractions of the
\* model and the doubles of the program truncate to the same integers
IntensityInputs(kind) ==
    CASE kind \in {"pan", "tilt", "tracking"} -> {R(-1, 1), R(0, 1), R(1, 1), R(50, 1)}
      [] kind = "zoom" -> {R(1, 1), R(3, 2), R(5, 2), R(50, 1)}
      [] kind = "dolly" -> {R(0, 1), R(2, 1)}
      [] OTHER -> {R(0, 1)}

----------------------------------------------------------------------------
(* Output videos: what cv2.VideoWriter was opened with and was written. *)
NoVideo == [exists |-> FALSE]

\* (variant: the size given as (height, width))
VideoWriterSwapped(fps, width, height) ==
    [exists |-> TRUE, fps |-> fps, width |-> height, height |-> width,
     frames |-> <<>>, released |-> FALSE]

\* cv2.VideoWriter(output_path, fourcc, fps, (width, height))
VideoWriter(fps, width, height) ==
    [exists |-> TRUE, fps |-> fps, width |-> width, height |-> height,
     frames |-> <<>>, released |-> FALSE]

\* out.write(frame): a frame of another size than the writer's is not written
Write(video, frame) ==
    IF frame.w = video.width /\ frame.h = video.height
    THEN [video EXCEPT !.frames = Append(@, frame)]
    ELSE video

\* out.release()
Release(video) == [video EXCEPT !.released = TRUE]

----------------------------------------------------------------------------
(* One call of a simulate_* method. *)
NoCall ==
    [kind |-> "none", method |-> "none", direction |-> "none",
     intensity |-> R(0, 1), path |-> "none", label |-> "none", pc |-> "none",
     frame_num |-> 0, pos |-> 0, ppf |-> R(0, 1), last |-> NoImage,
     loc |-> NoLocals]

\* (variant: simulate_tracking with a loop body of its own)
MethodOwn(kind) == kind

\* simulate_tracking runs simulate_pan with its own arguments
Method(kind) == IF kind = "tracking" THEN "pan" ELSE kind

\* (variant: the frame counter of the call before is kept)
NewCallKeepsCounter(kind, direction, intensity, path, label) ==
    [NoCall EXCEPT !.kind = kind, !.method = Method(kind),
                   !.direction = direction, !.intensity = intensity,
                   !.path = path, !.label = label, !.pc = "begin",
                   !.frame_num = call.frame_num]

\* the locals of a simulate_* method at its entry
NewCall(kind, direction, intensity, path, label) ==
    [NoCall EXCEPT !.kind = kind, !.method = Method(kind),
                   !.direction = direction, !.intensity = intensity,
                   !.path = path, !.label = label, !.pc = "begin"]

\* the loop body of the running method on the frame just read
Step(self, c, frame) ==
    CASE c.method = "pan" -> PanStep(self, frame, c.frame_num, c.direction, c.ppf)
      [] c.method = "tilt" -> TiltStep(self, frame, c.frame_num, c.direction, c.ppf)
      [] c.method = "zoom" ->
            ZoomStep(self, frame, c.frame_num, c.direction, c.intensity)
      [] c.method = "dolly" -> DollyStep(self, frame, c.frame_num, c.direction)
      [] OTHER -> StaticStep(frame)

\* (variant: the frame counter is never advanced)
NextFrameNumStuck(c) == c.frame_num

\* frame_num += 1 (simulate_static keeps no frame counter)
NextFrameNum(c) == IF c.method = "static" THEN c.frame_num ELSE c.frame_num + 1

----------------------------------------------------------------------------
(* The pipeline script (run_complete_pipeline.py): where main is, whether  *)
(* an API key was given, the last value run_step returned, what each step  *)
(* came to and the headers and messages printed.                           *)
NoPipeline ==
    [pc |-> "none", test_vlm |-> FALSE, success |-> FALSE,
     steps |-> [i \in 1 .. 3 |-> "not_run"], printed |-> {}]

----------------------------------------------------------------------------
Init ==
    /\ src \in Sources
    /\ sim = [fps |-> 0, width |-> 0, height |-> 0, total_frames |-> 0]
    /\ pc = "start"
    /\ entry = "none"
    /\ k = 0
    /\ call = NoCall
    /\ out = [p \in Paths |-> NoVideo]
    /\ handles = {}
    /\ generated_videos = <<>>
    /\ err = "none"
    /\ pipeline = NoPipeline

\* CameraMotionSimulator.__init__
Construct ==
    /\ pc = "start"
    /\ sim' = [fps |-> src.fps, width |-> src.width, height |-> src.height,
               total_frames |-> src.count]
    /\ handles' = handles \cup {"self.cap"}
    /\ pc' = "ready"
    /\ UNCHANGED <<pipeline, src, entry, k, call, out, generated_videos, err>>

\* a caller invokes one simulate_* method on the simulator
DirectCall ==
    /\ pc = "ready"
    /\ \E kind \in Kinds :
         \E direction \in DirectionInputs(kind) :
           \E intensity \in IntensityInputs(kind) :
             call' = NewCall(kind, direction, intensity, DirectPath, "none")
    /\ entry' = "direct"
    /\ pc' = "call"
    /\ UNCHANGED <<pipeline, src, sim, k, out, handles, generated_videos, err>>

\* generate_all_motions up to its loop
GenerateAllMotions ==
    /\ pc = "ready"
    /\ entry' = "batch"
    /\ k' = 1
    /\ generated_videos' = <<>>
    /\ pc' = "batch_loop"
    /\ UNCHANGED <<pipeline, src, sim, call, out, handles, err>>

\* generator_func(simulator) for the next motion
BatchCall ==
    /\ pc = "batch_loop"
    /\ k <= Len(motions)
    /\ LET m == motions[k]
       IN  call' = NewCall(m.kind, m.direction, m.intensity, m.filename, m.label)
    /\ pc' = "call"
    /\ UNCHANGED <<pipeline, src, sim, entry, k, out, handles, generated_videos, err>>

\* a simulate_* method up to its loop: the capture, the writer, the counters
CallBegin ==
    /\ pc = "call"
    /\ call.pc = "begin"
    /\ handles' = handles \cup {"cap", "out"}
    /\ out' = [out EXCEPT ![call.path] = VideoWriter(sim.fps, sim.width, sim.height)]
    /\ IF call.method \in {"pan", "tilt"} /\ sim.fps = 0
       THEN /\ err' = "ZeroDivisionError"
            /\ pc' = "raised"
            /\ call' = call
       ELSE /\ call' = [call EXCEPT
                          !.pc = "loop",
                          !.ppf = IF call.method \in {"pan", "tilt"}
                                  THEN PixelsPerFrame(call.intensity, sim)
                                  ELSE @]
            /\ UNCHANGED <<pc, err>>
    /\ UNCHANGED <<pipeline, src, sim, entry, k, generated_videos>>

\* one iteration of the loop: read a frame, transform it, write it
CallFrame ==
    /\ pc = "call"
    /\ call.pc = "loop"
    /\ src.opened
    /\ call.pos < src.frames
    /\ LET res == Step(sim, call, SourceFrame(src, call.pos))
       IN  IF res.err # "none"
           THEN /\ err' = res.err
                /\ pc' = "raised"
                /\ call' = [call EXCEPT !.pos = @ + 1, !.loc = res.loc]
                /\ out' = out
           ELSE /\ out' = [out EXCEPT ![call.path] = Write(@, res.img)]
                /\ call' = [call EXCEPT !.pos = @ + 1,
                                        !.frame_num = NextFrameNum(call),
                                        !.last = res.img, !.loc = res.loc]
                /\ UNCHANGED <<pc, err>>
    /\ UNCHANGED <<pipeline, src, sim, entry, k, handles, generated_videos>>

\* the loop ends (the capture is not opened, or read() yields no frame);
\* both streams are released and the method returns
CallEnd ==
    /\ pc = "call"
    /\ call.pc = "loop"
    /\ ~src.opened \/ call.pos >= src.frames
    /\ handles' = handles \ {"cap", "out"}
    /\ out' = [out EXCEPT ![call.path] = Release(@)]
    /\ call' = [call EXCEPT !.pc = "done"]
    /\ pc' = IF entry = "batch" THEN "batch_record" ELSE "returned"
    /\ UNCHANGED <<pipeline, src, sim, entry, k, generated_videos, err>>

\* generated_videos[motion_name] = os.path.join(output_dir, filename)
BatchRecord ==
    /\ pc = "batch_record"
    /\ generated_videos' =
         [l \in DOMAIN generated_videos \cup {motions[k].label} |->
            IF l = motions[k].label THEN motions[k].filename
            ELSE generated_videos[l]]
    /\ k' = k + 1
    /\ pc' = "batch_loop"
    /\ UNCHANGED <<pipeline, src, sim, entry, call, out, handles, err>>

\* return generated_videos
BatchReturn ==
    /\ pc = "batch_loop"
    /\ k > Len(motions)
    /\ pc' = "returned"
    /\ UNCHANGED <<pipeline, src, sim, entry, k, call, out, handles, generated_videos, err>>

Next ==
    \/ Construct
    \/ DirectCall
    \/ GenerateAllMotions
    \/ BatchCall
    \/ CallBegin
    \/ CallFrame
    \/ CallEnd
    \/ BatchRecord
    \/ BatchReturn

Spec == Init /\ [][Next]_vars

\* the program over a source with an inaccurate frame count
InitMiscount ==
    /\ src \in MiscountedSources
    /\ sim = [fps |-> 0, width |-> 0, height |-> 0, total_frames |-> 0]
    /\ pc = "start"
    /\ entry = "none"
    /\ k = 0
    /\ call = NoCall
    /\ out = [p \in Paths |-> NoVideo]
    /\ handles = {}
    /\ generated_videos = <<>>
    /\ err = "none"
    /\ pipeline = NoPipeline

SpecMiscount == InitMiscount /\ [][Next]_vars

----------------------------------------------------------------------------
(* The pipeline script.  Step 2 runs camera_motion_simulator.py as a child *)
(* process: generate_all_motions over the video step 1 made; the child's   *)
(* exit status is 0 when generate_all_motions returns and not 0 when an    *)
(* exception leaves it.                                                    *)
simvars == <<src, sim, pc, entry, k, call, out, handles, generated_videos, err>>

\* what run_step returned for a step
Outcome(ok) == IF ok THEN "ok" ELSE "failed"

\* (variant: the pipeline goes on whatever run_step returned)
AfterStepAlways(success, next) == next

\* if not success: print the failure and return
AfterStep(success, next) == IF success THEN next ELSE "returned"

\* if test_vlm and success
VlmComplete(test_vlm, success) == test_vlm /\ success

InitPipeline ==
    /\ src \in Sources
    /\ sim = [fps |-> 0, width |-> 0, height |-> 0, total_frames |-> 0]
    /\ pc = "unstarted"
    /\ entry = "none"
    /\ k = 0
    /\ call = NoCall
    /\ out = [p \in Paths |-> NoVideo]
    /\ handles = {}
    /\ generated_videos = <<>>
    /\ err = "none"
    /\ pipeline = [NoPipeline EXCEPT !.pc = "main"]

\* main up to the first step: an API key was given or not
Main ==
    /\ pipeline.pc = "main"
    /\ \E test_vlm \in BOOLEAN :
         pipeline' = [pipeline EXCEPT !.pc = "step1", !.test_vlm = test_vlm,
                                      !.printed = @ \cup {"PIPELINE OVERVIEW"}]
    /\ UNCHANGED simvars

\* step 1: run_step on generate_test_video.py; its exit status decides
Step1 ==
    /\ pipeline.pc = "step1"
    /\ \E ok \in BOOLEAN :
         pipeline' = [pipeline EXCEPT
                        !.success = ok,
                        !.steps[1] = Outcome(ok),
                        !.printed = @ \cup {"STEP 1"} \cup
                                    (IF ok THEN {} ELSE {"Pipeline failed at Step 1"}),
                        !.pc = AfterStep(ok, "step2")]
    /\ UNCHANGED simvars

\* step 2, run_step up to subprocess.run: the command's cd fails, or the
\* simulator script starts
Step2Launch ==
    /\ pipeline.pc = "step2"
    /\ \E launched \in BOOLEAN :
         pc' = IF launched THEN "start" ELSE "no_process"
    /\ pipeline' = [pipeline EXCEPT !.steps[2] = "running",
                                    !.printed = @ \cup {"STEP 2"},
                                    !.pc = "step2_wait"]
    /\ UNCHANGED <<src, sim, entry, k, call, out, handles, generated_videos, err>>

\* step 2, the child has ended: run_step returns, main lists the videos
Step2End ==
    /\ pipeline.pc = "step2_wait"
    /\ pc \in {"returned", "raised", "no_process"}
    /\ LET ok == pc = "returned"
       IN  pipeline' = [pipeline EXCEPT
                          !.success = ok,
                          !.steps[2] = Outcome(ok),
                          !.printed = @ \cup (IF ok THEN {"Generated Videos"}
                                              ELSE {"Pipeline failed at Step 2"}),
                          !.pc = AfterStep(ok, IF pipeline.test_vlm THEN "step3"
                                               ELSE "summary")]
    /\ UNCHANGED simvars

\* step 3 (and 4): run_step on test_gemini_camera_motion.py, the results
\* shown when it succeeded
Step3 ==
    /\ pipeline.pc = "step3"
    /\ \E ok \in BOOLEAN :
         pipeline' = [pipeline EXCEPT
                        !.success = ok,
                        !.steps[3] = Outcome(ok),
                        !.printed = @ \cup {"STEP 3"} \cup
                                    (IF ok THEN {"STEP 4: TEST RESULTS"}
                                     ELSE {"VLM testing failed"}),
                        !.pc = "summary"]
    /\ UNCHANGED simvars

\* the final summary
Summary ==
    /\ pipeline.pc = "summary"
    /\ pipeline' = [pipeline EXCEPT
                      !.printed = @ \cup {"PIPELINE COMPLETE",
                                          "Videos Generated Successfully!"} \cup
                                  (IF VlmComplete(pipeline.test_vlm, pipeline.success)
                                   THEN {"VLM Testing Complete!"} ELSE {}),
                      !.pc = "returned"]
    /\ UNCHANGED simvars

NextPipeline ==
    \/ Main
    \/ Step1
    \/ Step2Launch
    \/ Construct
    \/ GenerateAllMotions
    \/ BatchCall
    \/ CallBegin
    \/ CallFrame
    \/ CallEnd
    \/ BatchRecord
    \/ BatchReturn
    \/ Step2End
    \/ Step3
    \/ Summary

SpecPipeline == InitPipeline /\ [][NextPipeline]_vars

----------------------------------------------------------------------------
(* The scoring code's reading of a ground-truth label                      *)
(* (test_gemini_camera_motion.py).  Strings are spelled as sequences of    *)
(* characters.                                                             *)
Spell(word) ==
    CASE word = "pan_right" -> <<"p", "a", "n", "_", "r", "i", "g", "h", "t">>
      [] word = "pan_left" -> <<"p", "a", "n", "_", "l", "e", "f", "t">>
      [] word = "tilt_up" -> <<"t", "i", "l", "t", "_", "u", "p">>
      [] word = "tilt_down" -> <<"t", "i", "l", "t", "_", "d", "o", "w", "n">>
      [] word = "zoom_in" -> <<"z", "o", "o", "m", "_", "i", "n">>
      [] word = "zoom_out" -> <<"z", "o", "o", "m", "_", "o", "u", "t">>
      [] word = "dolly_in" -> <<"d", "o", "l", "l", "y", "_", "i", "n">>
      [] word = "dolly_out" -> <<"d", "o", "l", "l", "y", "_", "o", "u", "t">>
      [] word = "static" -> <<"s", "t", "a", "t", "i", "c">>
      [] word = "pan" -> <<"p", "a", "n">>
      [] word = "tilt" -> <<"t", "i", "l", "t">>
      [] word = "zoom" -> <<"z", "o", "o", "m">>
      [] word = "dolly" -> <<"d", "o", "l", "l", "y">>
      [] word = "right" -> <<"r", "i", "g", "h", "t">>
      [] word = "left" -> <<"l", "e", "f", "t">>
      [] word = "up" -> <<"u", "p">>
      [] word = "down" -> <<"d", "o", "w", "n">>
      [] word = "in" -> <<"i", "n">>
      [] word = "out" -> <<"o", "u", "t">>
      [] word = "none" -> <<"n", "o", "n", "e">>

\* s.split(sep): the pieces of s between the occurrences of sep
RECURSIVE SplitFrom(_, _, _, _)
SplitFrom(s, sep, i, piece) ==
    IF i > Len(s) THEN <<piece>>
    ELSE IF s[i] = sep THEN <<piece>> \o SplitFrom(s, sep, i + 1, <<>>)
    ELSE SplitFrom(s, sep, i + 1, Append(piece, s[i]))

Split(s, sep) == SplitFrom(s, sep, 1, <<>>)

\* gt_motion = gt_parts[0]
GtMotion(ground_truth) == Split(Spell(ground_truth), "_")[1]

\* (variant: the first part taken for the direction too)
GtDirectionFirst(ground_truth) == Split(Spell(ground_truth), "_")[1]

\* gt_direction = gt_parts[1] if len(gt_parts) > 1 else "none"
GtDirection(ground_truth) ==
    LET gt_parts == Split(Spell(ground_truth), "_")
    IN  IF Len(gt_parts) > 1 THEN gt_parts[2] ELSE Spell("none")

----------------------------------------------------------------------------
(* Properties. *)

\* the running (or finished) method has handed at least one frame to out.write
Wrote == call.last # NoImage

\* the index of the frame last handed to out.write by a pan, tilt, zoom or
\* dolly loop
LastIndex == call.frame_num - 1

\* trunc(a / b) for b > 0
TruncDiv(a, b) == IF a >= 0 THEN a \div b ELSE -((-a) \div b)

\* C1: in simulate_pan and simulate_tilt the offset that cuts the window is
\* at least 0 and below the width (pan) or the height (tilt), at every frame
\* processed, in both directions
C1_OffsetInRange ==
    Wrote =>
      /\ call.method = "pan" => call.loc.offset >= 0 /\ call.loc.offset < src.width
      /\ call.method = "tilt" => call.loc.offset >= 0 /\ call.loc.offset < src.height

\* a pan to the right whose raw offset passed the width and was wrapped
C1_Witness ==
    /\ Wrote
    /\ call.kind = "pan"
    /\ call.direction = "right"
    /\ call.intensity = R(50, 1)
    /\ RawOffset(sim, LastIndex, "right", "right", call.ppf) >= src.width
    /\ call.loc.offset > 0

\* C2: in simulate_pan and simulate_tilt the window [offset, offset + dim)
\* lies inside the canvas of size 2 * dim along the motion axis, and every
\* cell of the frame cut from it was populated from the source frame
C2_WindowInsideCanvas ==
    Wrote /\ call.method \in {"pan", "tilt"} =>
      /\ call.method = "pan" =>
            /\ call.loc.canvas_w = 2 * src.width
            /\ call.loc.offset >= 0
            /\ call.loc.offset + src.width <= call.loc.canvas_w
      /\ call.method = "tilt" =>
            /\ call.loc.canvas_h = 2 * src.height
            /\ call.loc.offset >= 0
            /\ call.loc.offset + src.height <= call.loc.canvas_h
      /\ DOMAIN call.last.px = Cells(src.height, src.width)
      /\ \A p \in DOMAIN call.last.px : call.last.px[p] # 0

\* a tilt whose window starts below the top of the canvas
C2_Witness ==
    /\ Wrote
    /\ call.kind = "tilt"
    /\ call.direction = "down"
    /\ call.loc.offset > 0
    /\ LastIndex >= 1

\* the source and the pan profile of the end-to-end scenario
Scenario == [fps |-> 30, width |-> 1280, height |-> 720, total_frames |-> 90]
ScenarioOffset ==
    PanOffset(Scenario, 30, "right", PixelsPerFrame(R(50, 1), Scenario))

\* C3: the frame simulate_pan writes at index i is columns
\* [offset, offset + width) of the source frame placed twice side by side,
\* with offset = trunc(i * speed / fps) mod width to the right and
\* trunc((total_frames - i) * speed / fps) mod width to the left; in the
\* end-to-end scenario the offset at index 30 is 50 and the window [50, 1330)
C3_PanWindow ==
    /\ ScenarioOffset = 50
    /\ ScenarioOffset + Scenario.width = 1330
    /\ Wrote /\ call.method = "pan" /\ call.direction \in {"left", "right"} =>
         LET i == LastIndex
             steps == IF call.direction = "right" THEN i ELSE src.count - i
             offset == TruncDiv(steps * call.intensity.n,
                                call.intensity.d * src.fps) % src.width
             frame == SourceFrame(src, i)
             written == out[call.path].frames
         IN  /\ call.loc.offset = offset
             /\ call.last.h = src.height /\ call.last.w = src.width
             /\ \A p \in Cells(src.height, src.width) :
                   call.last.px[p] = frame.px[<<p[1], (offset + p[2]) % src.width>>]
             /\ Len(written) = i + 1
             /\ written[i + 1] = call.last

\* a pan to the left, past its first frame, with a window that wraps
C3_Witness ==
    /\ Wrote
    /\ call.kind = "pan"
    /\ call.direction = "left"
    /\ LastIndex >= 1
    /\ call.loc.offset > 0
    /\ src.width > 1

\* C4: simulate_static writes the frames it reads, unchanged, in order, none
\* dropped or duplicated
C4_StaticIdentity ==
    call.kind = "static" /\ call.pc \in {"loop", "done"} =>
      LET written == out[call.path].frames
      IN  /\ Len(written) = call.pos
          /\ \A j \in 1 .. Len(written) : written[j] = SourceFrame(src, j - 1)
          /\ call.pc = "done" => Len(written) = src.frames

\* simulate_static has returned after copying at least two frames
C4_Witness ==
    /\ call.kind = "static"
    /\ call.pc = "done"
    /\ Len(out[call.path].frames) >= 2
    /\ out[call.path].frames[2] = SourceFrame(src, 1)

\* C5: for every motion kind and direction, every frame handed to out.write
\* and every frame of an output video has the source's width and height
C5_OutputSize ==
    /\ Wrote => call.last.w = src.width /\ call.last.h = src.height
    /\ \A p \in Paths :
         out[p].exists =>
           \A j \in 1 .. Len(out[p].frames) :
             /\ out[p].frames[j].w = src.width
             /\ out[p].frames[j].h = src.height
             /\ DOMAIN out[p].frames[j].px = Cells(src.height, src.width)

\* a zoom that cropped a smaller window and resized it back, on a source
\* that is not square
C5_Witness ==
    /\ Wrote
    /\ call.kind = "zoom"
    /\ call.loc.new_width < src.width
    /\ src.width # src.height
    /\ Len(out[call.path].frames) >= 2

Stopped == pc \in {"returned", "raised"}

\* CallBegin has acted for the current call
Begun == call.kind # "none" /\ (call.pc # "begin" \/ pc = "raised")

\* C7: when the generation of one profile fails, generate_all_motions still
\* generates and records every other profile of the catalog
C7_BatchIsolatesFailure ==
    entry = "batch" /\ Stopped =>
      \A i \in DOMAIN motions :
        (pc = "returned" \/ i # k) =>
          /\ motions[i].label \in DOMAIN generated_videos
          /\ out[motions[i].filename].exists
          /\ out[motions[i].filename].released

\* a frame rate or frame count of zero, or an intensity that is not positive
BadConfiguration ==
    \/ sim.fps = 0
    \/ sim.total_frames = 0
    \/ call.kind \notin {"none", "static"} /\ call.intensity.n <= 0

\* C8: with a frame rate or total_frames of zero, or an intensity that is not
\* positive, a simulate_* call fails before it reads or writes any frame
C8_FailsFast ==
    Begun /\ BadConfiguration =>
      /\ pc = "raised"
      /\ call.pos = 0
      /\ out[call.path].exists => out[call.path].frames = <<>>

\* C9: a direction that is not valid for the motion kind is rejected: the
\* call raises, reads no frame and writes none
C9_RejectsInvalidDirection ==
    Begun /\ call.direction \notin ValidDirections(call.kind) =>
      /\ pc = "raised"
      /\ call.pos = 0
      /\ ~Wrote

\* well-formed stream metadata of a readable source
ValidSource ==
    src.opened /\ src.fps > 0 /\ src.width > 0 /\ src.height > 0 /\ src.count >= 0

CatalogLabels ==
    {"pan_right", "pan_left", "tilt_up", "tilt_down", "zoom_in", "zoom_out",
     "dolly_in", "dolly_out", "static"}

\* C10: on any valid source generate_all_motions returns exactly the nine
\* catalog labels, each mapped to its own video, each generated to completion
C10_BatchComplete ==
    entry = "batch" /\ ValidSource /\ Stopped =>
      /\ pc = "returned"
      /\ DOMAIN generated_videos = CatalogLabels
      /\ Cardinality(DOMAIN generated_videos) = 9
      /\ \A a, b \in DOMAIN generated_videos :
           a # b => generated_videos[a] # generated_videos[b]
      /\ \A a \in DOMAIN generated_videos :
           /\ out[generated_videos[a]].exists
           /\ out[generated_videos[a]].released

----------------------------------------------------------------------------
\* the area of the crop window of the frame a zoom call processed last
CropArea(c) == c.loc.new_width * c.loc.new_height

\* a step of the zoom loop from one processed frame to the next
ZoomNextFrame ==
    /\ pc = "call"
    /\ call.method = "zoom"
    /\ call.pc = "loop"
    /\ call.pos >= 1
    /\ call'.pos = call.pos + 1
    /\ RGeq(call.intensity, RInt(1))

\* C11: with max_zoom >= 1 the area of the crop window, trunc(width /
\* factor) * trunc(height / factor), never grows from one frame to the next
\* in a zoom in and never shrinks in a zoom out
C11_ZoomMonotone ==
    [][ZoomNextFrame =>
         /\ call.direction = "in" => CropArea(call') <= CropArea(call)
         /\ call.direction = "out" => CropArea(call') >= CropArea(call)]_vars

\* a zoom in whose window has shrunk below the whole frame after two frames
C11_Witness ==
    /\ Wrote
    /\ call.kind = "zoom"
    /\ call.direction = "in"
    /\ call.pos >= 2
    /\ CropArea(call) >= 1
    /\ CropArea(call) < src.width * src.height

\* C12: at frame 0 of a dolly in the scale factor is exactly 1, the frame is
\* resized to the source's own size, the crop starts at (0, 0) and the frame
\* written is the source frame
C12_DollyInStart ==
    Wrote /\ call.method = "dolly" /\ call.direction = "in" /\ call.pos = 1 =>
      /\ call.loc.progress.n = 0
      /\ call.loc.factor.n = call.loc.factor.d
      /\ call.loc.new_width = src.width
      /\ call.loc.new_height = src.height
      /\ call.loc.x_start = 0
      /\ call.loc.y_start = 0
      /\ call.last = SourceFrame(src, 0)
      /\ out[call.path].frames = <<SourceFrame(src, 0)>>

\* the first frame of a dolly in over a source of several frames and pixels
C12_Witness ==
    /\ Wrote
    /\ call.kind = "dolly"
    /\ call.direction = "in"
    /\ call.pos = 1
    /\ src.count >= 2
    /\ src.width >= 2
    /\ src.height >= 2

----------------------------------------------------------------------------
\* equality of fractions
REq(x, y) == x.n * y.d = y.n * x.d

\* the factor a maximum of 1.5 gives at progress i / T: 1 + 0.5 * i / T for
\* in, 1.5 - 0.5 * i / T for out
FactorAtOneAndAHalf(direction, i, T) ==
    IF direction = "in" THEN R(2 * T + i, 2 * T) ELSE R(3 * T - i, 2 * T)

\* a running method past its setup
InLoop == call.pc \in {"loop", "done"}

----------------------------------------------------------------------------
\* C14: the label of every profile the batch runs splits on '_' into the
\* kind and the direction of the method call made for it ('static' and no
\* direction for the static profile), and no two profiles of the catalog
\* with different kind or direction share a label
C14_LabelRoundTrip ==
    /\ entry = "batch" /\ call.kind # "none" =>
         /\ call.label \in CatalogLabels
         /\ GtMotion(call.label) = Spell(call.kind)
         /\ GtDirection(call.label) = Spell(call.direction)
         /\ call.kind = "static" => Split(Spell(call.label), "_") = <<Spell("static")>>
    /\ \A i, j \in DOMAIN motions :
         motions[i].label = motions[j].label =>
           motions[i].kind = motions[j].kind /\ motions[i].direction = motions[j].direction
    /\ \A l \in DOMAIN generated_videos :
         \E i \in DOMAIN motions :
           /\ motions[i].label = l
           /\ GtMotion(l) = Spell(motions[i].kind)
           /\ GtDirection(l) = Spell(motions[i].direction)

\* the batch has run and recorded every profile, the static one last
C14_Witness ==
    /\ entry = "batch"
    /\ pc = "returned"
    /\ call.label = "static"
    /\ "tilt_down" \in DOMAIN generated_videos
    /\ GtDirection("tilt_down") = <<"d", "o", "w", "n">>
    /\ GtDirection("static") = <<"n", "o", "n", "e">>

----------------------------------------------------------------------------
\* what simulate_pan(direction, speed) has after the first n frames of the
\* source: the frames it has put out and the offset of the last one
PanFrames(direction, speed, n) ==
    [j \in 1 .. n |->
        PanStep(sim, SourceFrame(src, j - 1), j - 1, direction,
                PixelsPerFrame(speed, sim)).img]

PanLastOffset(direction, speed, n) ==
    PanStep(sim, SourceFrame(src, n - 1), n - 1, direction,
            PixelsPerFrame(speed, sim)).loc.offset

\* C15: a tracking call with a direction and a speed has written, after
\* every frame, exactly the frames simulate_pan writes for that direction
\* and speed over the same source, with the same offset at the last frame,
\* and it ends after as many frames as the source has
C15_TrackingIsPan ==
    call.kind = "tracking" /\ InLoop =>
      /\ out[call.path].frames = PanFrames(call.direction, call.intensity, call.pos)
      /\ call.pos >= 1 =>
           /\ call.last = PanFrames(call.direction, call.intensity, call.pos)[call.pos]
           /\ call.loc.offset = PanLastOffset(call.direction, call.intensity, call.pos)
      /\ call.pc = "done" => Len(out[call.path].frames) = src.frames

\* a tracking call has ended after two or more frames, the last one shifted
C15_Witness ==
    /\ call.kind = "tracking"
    /\ call.pc = "done"
    /\ Len(out[call.path].frames) >= 2
    /\ call.loc.offset > 0
    /\ call.last # SourceFrame(src, call.pos - 1)

----------------------------------------------------------------------------
\* the output frame of a profile at frame index i, computed from the i-th
\* source frame, i, the stream's metadata and the profile alone
OutputAt(kind, direction, intensity, i) ==
    LET fresh == [NoCall EXCEPT
                    !.kind = kind, !.method = Method(kind),
                    !.direction = direction, !.intensity = intensity,
                    !.frame_num = i,
                    !.ppf = IF Method(kind) \in {"pan", "tilt"}
                            THEN PixelsPerFrame(intensity, sim)
                            ELSE @]
    IN  Step(sim, fresh, SourceFrame(src, i)).img

\* C16: every frame of every output video is the function OutputAt of its
\* index, its source frame, the metadata and its profile: in the batch for
\* every profile run so far, whatever ran before it, and in a direct call
C16_Deterministic ==
    /\ entry = "batch" =>
         \A i \in DOMAIN motions :
           LET m == motions[i]
               video == out[m.filename]
           IN  video.exists =>
                 \A j \in 1 .. Len(video.frames) :
                   video.frames[j] = OutputAt(m.kind, m.direction, m.intensity, j - 1)
    /\ entry = "direct" /\ out[DirectPath].exists =>
         \A j \in 1 .. Len(out[DirectPath].frames) :
           out[DirectPath].frames[j] =
             OutputAt(call.kind, call.direction, call.intensity, j - 1)

\* the batch has returned with two or more frames for each profile, and the
\* second profile's frames differ from the first's
C16_Witness ==
    /\ entry = "batch"
    /\ pc = "returned"
    /\ \A i \in DOMAIN motions : Len(out[motions[i].filename].frames) >= 2
    /\ out[motions[1].filename].frames # out[motions[2].filename].frames

----------------------------------------------------------------------------
\* a frame of a zoom or dolly call has been processed and its factor computed
FactorComputed ==
    /\ call.method \in {"zoom", "dolly"}
    /\ call.pos >= 1
    /\ sim.total_frames # 0

\* C17: whenever the scale factor of a dolly frame is below 1, the
\* transform succeeds and its output is a black canvas of the original size
\* holding the frame resized to trunc(width*scale) by trunc(height*scale)
\* at column (width - new_width) div 2 and row (height - new_height) div 2
C17_DollyPadsCentred ==
    FactorComputed /\ call.method = "dolly" /\ ~RGeq(call.loc.factor, RInt(1)) =>
      LET new_width == PyInt(RMul(RInt(sim.width), call.loc.factor))
          new_height == PyInt(RMul(RInt(sim.height), call.loc.factor))
          x == (sim.width - new_width) \div 2
          y == (sim.height - new_height) \div 2
      IN  /\ pc # "raised"
          /\ x >= 0 /\ y >= 0
          /\ x + new_width <= sim.width /\ y + new_height <= sim.height
          /\ call.last = Assign(Zeros(sim.height, sim.width),
                                y, y + new_height, x, x + new_width,
                                Resize(SourceFrame(src, call.pos - 1),
                                       new_width, new_height))

----------------------------------------------------------------------------
\* the maximum factor of the running zoom or dolly call
MaxFactor == IF call.method = "zoom" THEN call.intensity ELSE max_scale

\* C18: at every processed frame of a zoom (max_zoom >= 1) or dolly call the
\* progress lies in [0, 1], below 1 while the frame index is below
\* total_frames, and the factor lies between 1 and the maximum factor
C18_ProgressClamped ==
    FactorComputed /\ RGeq(MaxFactor, RInt(1)) =>
      /\ RGeq(call.loc.progress, RInt(0))
      /\ RGeq(RInt(1), call.loc.progress)
      /\ call.pos - 1 < sim.total_frames => ~RGeq(call.loc.progress, RInt(1))
      /\ RGeq(call.loc.factor, RInt(1))
      /\ RGeq(MaxFactor, call.loc.factor)

----------------------------------------------------------------------------
\* C19: at every frame index below total_frames of a zoom call with
\* max_zoom >= 1 the crop window is non-empty, inside the source frame and
\* centred (crop_width = trunc(width / factor) >= 1, x_start =
\* (width - crop_width) div 2 >= 0, x_start + crop_width <= width, and the
\* same vertically), and zoom in's window at frame 0 is the whole frame
C19_CropInside ==
    /\ FactorComputed
    /\ call.method = "zoom"
    /\ RGeq(call.intensity, RInt(1))
    /\ call.pos - 1 < sim.total_frames
    => LET factor == Interpolate(call.direction, call.intensity,
                                 Progress(sim, call.pos - 1))
           crop_width == TruncDiv(sim.width * factor.d, factor.n)
           crop_height == TruncDiv(sim.height * factor.d, factor.n)
       IN  /\ call.loc.new_width = crop_width /\ crop_width >= 1
           /\ call.loc.new_height = crop_height /\ crop_height >= 1
           /\ call.loc.x_start = (sim.width - crop_width) \div 2
           /\ call.loc.y_start = (sim.height - crop_height) \div 2
           /\ call.loc.x_start >= 0 /\ call.loc.x_start + crop_width <= sim.width
           /\ call.loc.y_start >= 0 /\ call.loc.y_start + crop_height <= sim.height
           /\ call.direction = "in" /\ call.pos = 1 =>
                /\ crop_width = sim.width /\ crop_height = sim.height
                /\ call.loc.x_start = 0 /\ call.loc.y_start = 0

----------------------------------------------------------------------------
\* the frames written so far by the running call
Written == out[call.path].frames

\* C20: whenever the running call is about to read, the frames read so far
\* are the frames written so far and the frame counter (of the methods that
\* keep one) is their number; an iteration that does not raise appends
\* exactly the transform of the next source frame in order; and the loop
\* ends only when the source has no further frame, appending nothing
C20_OneFrameAtATime ==
    [][pc = "call" /\ call.pc = "loop" =>
         /\ call.pos = Len(Written)
         /\ call.method # "static" => call.frame_num = Len(Written)
         /\ call'.pos = call.pos + 1 /\ pc' # "raised" =>
              /\ call.pos < src.frames
              /\ out'[call.path].frames =
                   Append(Written, OutputAt(call.kind, call.direction,
                                            call.intensity, Len(Written)))
         /\ call'.pos = call.pos + 1 /\ pc' = "raised" =>
              out'[call.path].frames = Written
         /\ call'.pc = "done" =>
              /\ ~src.opened \/ call.pos = src.frames
              /\ out'[call.path].frames = Written]_vars

\* a dolly call has ended after three frames, all written
C20_Witness ==
    /\ call.method = "dolly"
    /\ call.pc = "done"
    /\ call.pos = 3
    /\ call.frame_num = 3
    /\ Len(Written) = 3
    /\ out[call.path].released

----------------------------------------------------------------------------
\* C21: in a batch run the handles of a profile are released before the
\* next profile's are opened, and once generate_all_motions has returned
\* (or the run has stopped) no handle opened in the run is still open, the
\* one opened by the simulator's constructor included
C21_HandlesClosed ==
    entry = "batch" =>
      /\ pc \in {"batch_loop", "batch_record"} \/ (pc = "call" /\ call.pc = "begin") =>
           "cap" \notin handles /\ "out" \notin handles
      /\ Stopped => handles = {}

----------------------------------------------------------------------------
\* C22: in the pipeline, step 2 (and with it the simulator) is started only
\* after step 1 succeeded; the VLM test is started only when a key was
\* given and steps 1 and 2 succeeded; the final summary is reached only when
\* steps 1 and 2 succeeded; and a failed VLM test still reaches the summary,
\* which then does not report VLM testing as complete
C22_PipelineGating ==
    pipeline.pc # "none" =>
      /\ pipeline.steps[2] # "not_run" \/ pc # "unstarted" =>
           pipeline.steps[1] = "ok"
      /\ pipeline.steps[3] # "not_run" \/ pipeline.pc = "step3" =>
           /\ pipeline.test_vlm
           /\ pipeline.steps[1] = "ok" /\ pipeline.steps[2] = "ok"
           /\ pc = "returned"
      /\ "PIPELINE COMPLETE" \in pipeline.printed
            \/ "Videos Generated Successfully!" \in pipeline.printed =>
           /\ pipeline.steps[1] = "ok" /\ pipeline.steps[2] = "ok"
           /\ pc = "returned"
      /\ pipeline.steps[3] = "failed" /\ pipeline.pc = "returned" =>
           /\ "PIPELINE COMPLETE" \in pipeline.printed
           /\ "VLM Testing Complete!" \notin pipeline.printed
      /\ "VLM Testing Complete!" \in pipeline.printed => pipeline.steps[3] = "ok"

\* the pipeline has ended after the batch returned its nine videos and the
\* VLM test failed
C22_Witness ==
    /\ pipeline.pc = "returned"
    /\ pipeline.test_vlm
    /\ pipeline.steps = [i \in 1 .. 3 |-> IF i = 3 THEN "failed" ELSE "ok"]
    /\ "PIPELINE COMPLETE" \in pipeline.printed
    /\ pc = "returned"
    /\ DOMAIN generated_videos = CatalogLabels

====
